---- MODULE Spec2Model ----
(***************************************************************************)
(* Model of scripts/coletar_commits_chatgpt_para_csv.py: the collector     *)
(* that rotates tokens, pages through /search/commits, normalises and      *)
(* deduplicates the items and writes the CSV.                              *)
(*                                                                         *)
(* Python values are tagged records, so that None, "", [] and {} stay      *)
(* distinct and the code's `or` / `.get` / `[...]` chains are computed as  *)
(* Python computes them, exceptions included.                              *)
(***************************************************************************)
EXTENDS Integers, Sequences, FiniteSets, TLC

VARIABLES
    tokensFile,   \* tokens.txt: whether it exists, and its lines
    max_pages,    \* args.max_pages
    TOKENS,       \* module global TOKENS
    TOKEN_INDEX,  \* module global TOKEN_INDEX
    pc,           \* where main is
    exc,          \* the exception that propagated out of main, "none" if none
    page,         \* buscar_commits: loop variable
    itens,        \* buscar_commits: accumulated raw items
    total,        \* urllib3 Retry.total left inside the current SESSION.get
    r,            \* buscar_commits: response returned by http_get
    items,        \* extrair_campos_para_csv: argument
    idx,          \* extrair_campos_para_csv: position of the for loop
    saida,        \* extrair_campos_para_csv: output list
    vistos,       \* extrair_campos_para_csv: dedup set
    origem,       \* history: index in items of the item each record came from
    csv,          \* the output file: whether it was written, and its lines
    log           \* history: tokens issued, pages requested, responses, sleeps

vars == <<tokensFile, max_pages, TOKENS, TOKEN_INDEX, pc, exc, page, itens,
          total, r, items, idx, saida, vistos, origem, csv, log>>

tokenVars == <<tokensFile, TOKENS, TOKEN_INDEX>>
driverVars == <<page, itens, total, r>>
extrairVars == <<items, idx, saida, vistos, origem>>

-----------------------------------------------------------------------------
(* Bounds of the model *)

MaxPagesArg == 2    \* --max-pages ranges over -1..MaxPagesArg
MaxAttempts == 3    \* SESSION.get calls in one run
MaxItems == 2       \* length of the raw sequences handed to the normaliser alone

-----------------------------------------------------------------------------
(* Python values *)

Absent == [t |-> "absent"]               \* key not in the dict
None == [t |-> "none"]
Str(s) == [t |-> "str", s |-> s]
List(l) == [t |-> "list", l |-> l]
Dict(d) == [t |-> "dict", d |-> d]
Raise(e) == [t |-> "raise", e |-> e]     \* evaluation raised exception e

EmptyDict == Dict([k \in {} |-> Absent])
EmptyList == List(<<>>)

IsRaise(x) == x.t = "raise"

\* bool(x)
Truthy(x) ==
    CASE x.t = "str" -> x.s # ""
      [] x.t = "list" -> Len(x.l) > 0
      [] x.t = "dict" -> \E k \in DOMAIN x.d : x.d[k].t # "absent"
      [] OTHER -> FALSE

\* a or b
PyOr(a, b) == IF IsRaise(a) THEN a ELSE IF Truthy(a) THEN a ELSE b

\* d.get(k, default)
DictGet(d, k, default) ==
    IF IsRaise(d) THEN d
    ELSE IF d.t # "dict" THEN Raise("AttributeError")
    ELSE IF k \in DOMAIN d.d /\ d.d[k].t # "absent" THEN d.d[k]
    ELSE default

\* d[k] for a string key k
Subscript(d, k) ==
    IF IsRaise(d) THEN d
    ELSE IF d.t # "dict" THEN Raise("TypeError")
    ELSE IF k \in DOMAIN d.d /\ d.d[k].t # "absent" THEN d.d[k]
    ELSE Raise("KeyError")

\* l[0]
First(l) ==
    IF IsRaise(l) THEN l
    ELSE IF l.t = "list" THEN (IF Len(l.l) > 0 THEN l.l[1] ELSE Raise("IndexError"))
    ELSE IF l.t = "dict" THEN Raise("KeyError")
    ELSE Raise("TypeError")

-----------------------------------------------------------------------------
(* extrair_campos_para_csv: the fields of one item, lines 140-151 *)

SENTINEL == Str("desconhecido")

repo_full_of(it) ==
    PyOr(DictGet(PyOr(DictGet(it, "repository", None), EmptyDict), "full_name", None),
         Str(""))

sha_of(it) == PyOr(DictGet(it, "sha", None), Str(""))

parents_of(it) == PyOr(DictGet(it, "parents", None), EmptyList)

\* parent_sha_of that reads the last entry of the parent list
parent_sha_ofMutLast(it) ==
    IF IsRaise(parents_of(it)) THEN parents_of(it)
    ELSE IF Truthy(parents_of(it))
         THEN Subscript(parents_of(it).l[Len(parents_of(it).l)], "sha")
    ELSE Str("")

parent_sha_of(it) ==
    IF IsRaise(parents_of(it)) THEN parents_of(it)
    ELSE IF Truthy(parents_of(it)) THEN Subscript(First(parents_of(it)), "sha")
    ELSE Str("")

author_login_of(it) == DictGet(PyOr(DictGet(it, "author", None), EmptyDict), "login", None)

commit_author_name_of(it) ==
    DictGet(PyOr(DictGet(PyOr(DictGet(it, "commit", None), EmptyDict), "author", None),
                 EmptyDict),
            "name", SENTINEL)

author_of(it) ==
    IF IsRaise(author_login_of(it)) THEN author_login_of(it)
    ELSE IF Truthy(author_login_of(it)) THEN author_login_of(it)
    ELSE commit_author_name_of(it)

\* The first exception lines 140-151 raise on item it, "none" if they raise none.
RaisedBy(it) ==
    CASE IsRaise(repo_full_of(it)) -> repo_full_of(it).e
      [] IsRaise(sha_of(it)) -> sha_of(it).e
      [] IsRaise(parent_sha_of(it)) -> parent_sha_of(it).e
      [] IsRaise(author_of(it)) -> author_of(it).e
      [] OTHER -> "none"

key_of(it) == <<repo_full_of(it), sha_of(it)>>

\* Skips without the `key in vistos` test
SkipsMutNoDedup(it, seen) == ~Truthy(repo_full_of(it)) \/ ~Truthy(sha_of(it))

\* Skips without the `not sha` test
SkipsMutNoShaCheck(it, seen) == ~Truthy(repo_full_of(it)) \/ key_of(it) \in seen

\* line 154: if not repo_full or not sha or key in vistos: continue
Skips(it, seen) ==
    ~Truthy(repo_full_of(it)) \/ ~Truthy(sha_of(it)) \/ key_of(it) \in seen

\* line 157: the tuple appended to saida
Record(it) == <<repo_full_of(it), sha_of(it), parent_sha_of(it), author_of(it)>>

-----------------------------------------------------------------------------
(* Items of /search/commits *)

Item(rep, sh, par, au, co) ==
    Dict([repository |-> rep, sha |-> sh, parents |-> par, author |-> au, commit |-> co])

Repo(name) == Dict([full_name |-> name])
Parent(sh) == Dict([sha |-> sh])
Account(login) == Dict([login |-> login])
Commit(au) == Dict([author |-> au])
Person(name) == Dict([name |-> name])

RepositoryVals ==
    {Absent, None, Repo(Absent), Repo(None), Repo(Str("")), Repo(Str("r1")), Repo(Str("r2"))}

ShaVals == {Absent, None, Str(""), Str("a"), Str("b")}

ParentsVals ==
    {Absent, None, EmptyList,
     List(<<Parent(Absent)>>), List(<<Parent(None)>>), List(<<Parent(Str(""))>>),
     List(<<None>>),
     List(<<Parent(Str("p1"))>>), List(<<Parent(Str("p2"))>>),
     List(<<Parent(Str("p1")), Parent(Str("p2"))>>),
     List(<<Parent(Str("p1")), Parent(Absent)>>)}

AuthorVals ==
    {Absent, None, Account(Absent), Account(None), Account(Str("")), Account(Str("u1")),
     Account(Str("u2"))}

CommitVals ==
    {Absent, None, Commit(Absent), Commit(None), Commit(Person(Absent)),
     Commit(Person(None)), Commit(Person(Str(""))), Commit(Person(Str("n1")))}

BaseRepo == Repo(Str("r1"))
BaseSha == Str("a")
BaseParents == List(<<Parent(Str("p1"))>>)
BaseAuthor == Account(Str("u1"))
BaseCommit == Commit(Person(Str("n1")))

\* The raw items the normaliser is run on: every shape of each field the code
\* reads, the other fields being those of a well-formed item.
RawItems ==
    {Item(rep, BaseSha, BaseParents, BaseAuthor, BaseCommit) : rep \in RepositoryVals}
    \cup {Item(BaseRepo, sh, BaseParents, BaseAuthor, BaseCommit) : sh \in ShaVals}
    \cup {Item(Repo(Str("r2")), Str("b"), BaseParents, BaseAuthor, BaseCommit),
          Item(Repo(Str("r2")), Str("b"), EmptyList, None, BaseCommit),
          Item(Repo(Str("")), None, BaseParents, BaseAuthor, BaseCommit)}
    \cup {Item(BaseRepo, BaseSha, par, BaseAuthor, BaseCommit) : par \in ParentsVals}
    \cup {Item(BaseRepo, BaseSha, BaseParents, au, BaseCommit) : au \in AuthorVals}
    \cup {Item(BaseRepo, BaseSha, BaseParents, au, co) :
            au \in {None, Account(Str(""))}, co \in CommitVals}

SeqsUpTo(S, n) == UNION {[1..k -> S] : k \in 0..n}

ItemA == Item(BaseRepo, BaseSha, BaseParents, BaseAuthor, BaseCommit)
ItemDup == Item(BaseRepo, BaseSha, List(<<Parent(Str("p2"))>>), Account(Str("u2")), BaseCommit)
ItemB == Item(Repo(Str("r2")), Str("b"), EmptyList, None, BaseCommit)
ItemNoSha == Item(BaseRepo, None, BaseParents, BaseAuthor, BaseCommit)
ItemBad == Item(BaseRepo, BaseSha, List(<<Parent(Absent)>>), BaseAuthor, BaseCommit)

\* The JSON bodies a 200 response of the search carries.
PageBodies ==
    {Dict([items |-> Absent]),
     Dict([items |-> None]),
     Dict([items |-> EmptyList]),
     Dict([items |-> List(<<ItemA>>)]),
     Dict([items |-> List(<<ItemB, ItemDup>>)]),
     Dict([items |-> List(<<ItemNoSha, ItemBad>>)])}

-----------------------------------------------------------------------------
(* extrair_campos_para_csv, lines 131-159 *)

\* FreshVistos that keeps the keys seen by the call before
FreshVistosMutKept(prev) == prev

\* line 137: every call starts from vistos = set(), whatever a call before saw
FreshVistos(prev) == {}

extrair_for ==
    /\ pc = "extrair_for"
    /\ idx <= Len(items)
    /\ LET it == items[idx] IN
          IF RaisedBy(it) # "none"
          THEN /\ pc' = "raised"
               /\ exc' = RaisedBy(it)
               /\ UNCHANGED extrairVars
          ELSE /\ idx' = idx + 1
               /\ IF Skips(it, vistos)
                  THEN UNCHANGED <<saida, vistos, origem>>
                  ELSE /\ vistos' = vistos \cup {key_of(it)}
                       /\ saida' = Append(saida, Record(it))
                       /\ origem' = Append(origem, idx)
               /\ UNCHANGED <<pc, exc, items>>
    /\ UNCHANGED <<tokenVars, max_pages, driverVars, csv, log>>

extrair_return ==
    /\ pc = "extrair_for"
    /\ idx > Len(items)
    /\ log' = Append(log, [ev |-> "extrair_return", saida |-> saida])
    /\ pc' = "salvar_csv_lote"
    /\ UNCHANGED <<tokenVars, max_pages, exc, driverVars, extrairVars, csv>>

-----------------------------------------------------------------------------
(* salvar_csv_lote, lines 161-168 *)

HEADER == <<"repo", "sha", "parent_sha", "author">>

\* csv.writer writes None as the empty field
CsvField(v) == IF v.t = "str" THEN v.s ELSE ""

CsvRow(rec) == [i \in 1..Len(rec) |-> CsvField(rec[i])]

\* CsvLines without the header row
CsvLinesMutNoHeader(rows) == [i \in 1..Len(rows) |-> CsvRow(rows[i])]

\* lines 165-167: the header, then one row per record
CsvLines(rows) == <<HEADER>> \o [i \in 1..Len(rows) |-> CsvRow(rows[i])]

salvar_csv_lote ==
    /\ pc = "salvar_csv_lote"
    /\ csv' = [written |-> TRUE, lines |-> CsvLines(saida)]
    /\ pc' = "done"
    /\ UNCHANGED <<tokenVars, max_pages, exc, driverVars, extrairVars, log>>

-----------------------------------------------------------------------------
(* load_tokens and next_headers, lines 33-56 *)

Whitespace == {" ", "\t", "\n"}

RECURSIVE LStrip(_)
LStrip(ln) ==
    IF ln # <<>> /\ Head(ln) \in Whitespace THEN LStrip(Tail(ln)) ELSE ln

RECURSIVE RStrip(_)
RStrip(ln) ==
    IF ln # <<>> /\ ln[Len(ln)] \in Whitespace
    THEN RStrip(SubSeq(ln, 1, Len(ln) - 1))
    ELSE ln

\* Strip that leaves the trailing whitespace (the newline) in place
StripMutLeftOnly(ln) == LStrip(ln)

\* ln.strip(), a line being the sequence of its characters
Strip(ln) == RStrip(LStrip(ln))

\* [ln.strip() for ln in f if ln.strip()]
RECURSIVE NonBlankStripped(_)
NonBlankStripped(lines) ==
    IF lines = <<>> THEN <<>>
    ELSE IF Strip(Head(lines)) # <<>>
         THEN <<Strip(Head(lines))>> \o NonBlankStripped(Tail(lines))
         ELSE NonBlankStripped(Tail(lines))

LineX == <<"x", "\n">>
LineY == <<" ", "y", " ", "\n">>
LineZ == <<"z">>
LineBlank == <<"\n">>
LineSpaces == <<" ", "\t", "\n">>

\* The tokens.txt files the run is started on.
TokenFiles ==
    {[exists |-> FALSE, lines |-> <<>>],
     [exists |-> TRUE, lines |-> <<>>],
     [exists |-> TRUE, lines |-> <<LineBlank, LineSpaces>>],
     [exists |-> TRUE, lines |-> <<LineX>>],
     [exists |-> TRUE, lines |-> <<LineY, LineBlank, LineX>>],
     [exists |-> TRUE, lines |-> <<LineX, LineY, LineSpaces, LineZ>>]}

load_tokens ==
    /\ pc = "load_tokens"
    /\ IF ~tokensFile.exists
       THEN /\ pc' = "raised"
            /\ exc' = "RuntimeError"
            /\ UNCHANGED TOKENS
       ELSE /\ TOKENS' = NonBlankStripped(tokensFile.lines)
            /\ IF TOKENS' = <<>>
               THEN pc' = "raised" /\ exc' = "RuntimeError"
               ELSE pc' = "buscar_for" /\ UNCHANGED exc
    /\ UNCHANGED <<tokensFile, TOKEN_INDEX, max_pages, driverVars, extrairVars, csv, log>>

\* NextIndex that stays on the last token instead of wrapping
NextIndexMutNoWrap(i, n) == IF i + 1 < n THEN i + 1 ELSE i

\* NextIndex that moves the cursor by two
NextIndexMutSkip(i, n) == (i + 2) % n

\* line 49: TOKEN_INDEX = (TOKEN_INDEX + 1) % len(TOKENS)
NextIndex(i, n) == (i + 1) % n

-----------------------------------------------------------------------------
(* SESSION and http_get, lines 59-85 *)

RetryTotal == 5
STATUS_FORCELIST == {429, 500, 502, 503, 504}
\* Retry(...) is built without raise_on_status, whose default is True: when the
\* retries on a status of the forcelist run out, urllib3 raises MaxRetryError and
\* requests turns it into RetryError, which is neither ConnectionError nor Timeout.
RaiseOnStatus == TRUE

ServerStatuses == {200, 403, 422, 503}

NoData == Dict([items |-> Absent])
NoResponse == [status |-> 0, data |-> NoData, next |-> FALSE]

Attempts == Len(SelectSeq(log, LAMBDA e : e.ev = "next_headers"))

\* line 73: headers=next_headers(), and the request goes out
http_get_try ==
    /\ pc = "http_get"
    /\ Attempts < MaxAttempts
    /\ TOKEN_INDEX' = NextIndex(TOKEN_INDEX, Len(TOKENS))
    /\ log' = Append(log, [ev |-> "next_headers", token |-> TOKENS[TOKEN_INDEX + 1]])
    /\ total' = RetryTotal
    /\ pc' = "SESSION_get"
    /\ UNCHANGED <<tokensFile, TOKENS, max_pages, exc, page, itens, r, extrairVars, csv>>

\* Retry.increment: one retry is used up; exhausted when total drops below 0
Exhausted(t) == t - 1 < 0

\* The server answers with a status of the forcelist: the adapter retries with the
\* same headers, and raises once the retries are used up.
SESSION_get_forcelist ==
    /\ pc = "SESSION_get"
    /\ \E s \in ServerStatuses \cap STATUS_FORCELIST :
          IF Exhausted(total)
          THEN IF RaiseOnStatus
               THEN /\ pc' = "raised"
                    /\ exc' = "RetryError"
                    /\ log' = Append(log, [ev |-> "exhausted", status |-> s])
                    /\ UNCHANGED <<total, r>>
               ELSE /\ pc' = "buscar_page"
                    /\ r' = [status |-> s, data |-> NoData, next |-> FALSE]
                    /\ log' = Append(Append(log, [ev |-> "exhausted", status |-> s]),
                                     [ev |-> "return", r |-> r'])
                    /\ UNCHANGED <<total, exc>>
          ELSE /\ total' = total - 1
               /\ UNCHANGED <<pc, exc, r, log>>
    /\ UNCHANGED <<tokenVars, max_pages, page, itens, extrairVars, csv>>

\* IsRateLimit that takes every 4xx status for a rate limit
IsRateLimitMutAny4xx(s) == s >= 400 /\ s < 500

\* line 74: if r.status_code == 403
IsRateLimit(s) == s = 403

\* lines 74-78: SESSION.get hands back a 403, answered by a 600 s sleep and
\* another attempt
http_get_403 ==
    /\ pc = "SESSION_get"
    /\ \E s \in ServerStatuses \ STATUS_FORCELIST :
          /\ IsRateLimit(s)
          /\ log' = Append(Append(log, [ev |-> "response", status |-> s]),
                           [ev |-> "sleep", secs |-> 600])
    /\ pc' = "http_get"
    /\ UNCHANGED <<tokenVars, max_pages, exc, driverVars, extrairVars, csv>>

\* line 79: any other response SESSION.get hands back is returned to the caller
http_get_return ==
    /\ pc = "SESSION_get"
    /\ \E s \in ServerStatuses \ STATUS_FORCELIST :
       \E body \in (IF s = 200 THEN PageBodies ELSE {NoData}) :
       \E nxt \in (IF s = 200 THEN BOOLEAN ELSE {FALSE}) :
          /\ ~IsRateLimit(s)
          /\ r' = [status |-> s, data |-> body, next |-> nxt]
          /\ log' = Append(Append(log, [ev |-> "response", status |-> s]),
                           [ev |-> "return", r |-> r'])
    /\ pc' = "buscar_page"
    /\ UNCHANGED <<tokenVars, max_pages, exc, page, itens, total, extrairVars, csv>>

\* RetryDelay with the sleep of the Timeout handler left out
RetryDelayMutNoTimeoutSleep(kind) == IF kind = "Timeout" THEN 0 ELSE 5

\* lines 82 and 85: time.sleep(5) in both handlers
RetryDelay(kind) == 5

\* lines 80-82: the connection fails; the adapter retries, and once its retries
\* are used up requests raises ConnectionError, answered by a 5 s sleep
http_get_ConnectionError ==
    /\ pc = "SESSION_get"
    /\ IF Exhausted(total)
       THEN /\ pc' = "http_get"
            /\ log' = Append(Append(log, [ev |-> "error"]),
                             [ev |-> "sleep", secs |-> RetryDelay("ConnectionError")])
            /\ UNCHANGED total
       ELSE /\ total' = total - 1
            /\ UNCHANGED <<pc, log>>
    /\ UNCHANGED <<tokenVars, max_pages, exc, page, itens, r, extrairVars, csv>>

\* lines 83-85: the request times out (requests raises Timeout), 5 s sleep
http_get_Timeout ==
    /\ pc = "SESSION_get"
    /\ pc' = "http_get"
    /\ log' = Append(Append(log, [ev |-> "error"]),
                     [ev |-> "sleep", secs |-> RetryDelay("Timeout")])
    /\ UNCHANGED <<tokenVars, max_pages, exc, driverVars, extrairVars, csv>>

-----------------------------------------------------------------------------
(* buscar_commits, lines 88-128 *)

\* InRange with the range one page too long
InRangeMutOneMore(p, mp) == p <= mp + 1

\* line 104: for page in range(1, max_pages + 1)
InRange(p, mp) == p <= mp

\* PageStep that drops what was accumulated when a page fails
PageStepMutDropOnError(acc, resp) ==
    IF resp.status # 200 THEN [itens |-> <<>>, go |-> FALSE]
    ELSE LET page_items == DictGet(resp.data, "items", EmptyList) IN
         IF ~Truthy(page_items) THEN [itens |-> acc, go |-> FALSE]
         ELSE [itens |-> acc \o page_items.l, go |-> resp.next]

\* PageStep that goes on although the response has no 'next' link
PageStepMutIgnoreNext(acc, resp) ==
    IF resp.status # 200 THEN [itens |-> acc, go |-> FALSE]
    ELSE LET page_items == DictGet(resp.data, "items", EmptyList) IN
         IF ~Truthy(page_items) THEN [itens |-> acc, go |-> FALSE]
         ELSE [itens |-> acc \o page_items.l, go |-> TRUE]

\* PageStep that goes on to the next page after a status other than 200
PageStepMutGoOnError(acc, resp) ==
    IF resp.status # 200 THEN [itens |-> acc, go |-> TRUE]
    ELSE LET page_items == DictGet(resp.data, "items", EmptyList) IN
         IF ~Truthy(page_items) THEN [itens |-> acc, go |-> FALSE]
         ELSE [itens |-> acc \o page_items.l, go |-> resp.next]

\* PageStep that puts the items of a page in front of those already there
PageStepMutPrepend(acc, resp) ==
    IF resp.status # 200 THEN [itens |-> acc, go |-> FALSE]
    ELSE LET page_items == DictGet(resp.data, "items", EmptyList) IN
         IF ~Truthy(page_items) THEN [itens |-> acc, go |-> FALSE]
         ELSE [itens |-> page_items.l \o acc, go |-> resp.next]

\* lines 108-123 on the response of one page: the new itens, and whether the
\* loop goes on to the next page (go) or breaks
PageStep(acc, resp) ==
    IF resp.status # 200 THEN [itens |-> acc, go |-> FALSE]
    ELSE LET page_items == DictGet(resp.data, "items", EmptyList) IN
         IF ~Truthy(page_items) THEN [itens |-> acc, go |-> FALSE]
         ELSE [itens |-> acc \o page_items.l, go |-> resp.next]

\* lines 104-107: the next page is requested, or the range is used up
buscar_commits_for ==
    /\ pc = "buscar_for"
    /\ IF InRange(page, max_pages)
       THEN /\ pc' = "http_get"
            /\ log' = Append(log, [ev |-> "http_get", page |-> page])
       ELSE /\ pc' = "buscar_return"
            /\ UNCHANGED log
    /\ UNCHANGED <<tokenVars, max_pages, exc, driverVars, extrairVars, csv>>

\* lines 108-125
buscar_commits_page ==
    /\ pc = "buscar_page"
    /\ LET st == PageStep(itens, r) IN
          /\ itens' = st.itens
          /\ IF st.go
             THEN /\ log' = Append(log, [ev |-> "sleep", secs |-> 1])
                  /\ page' = page + 1
                  /\ pc' = "buscar_for"
             ELSE /\ pc' = "buscar_return"
                  /\ UNCHANGED <<log, page>>
    /\ UNCHANGED <<tokenVars, max_pages, exc, total, r, extrairVars, csv>>

\* lines 127-128 and 178-179: itens is returned and handed to the normaliser
buscar_commits_return ==
    /\ pc = "buscar_return"
    /\ items' = itens
    /\ idx' = 1
    /\ saida' = <<>>
    /\ vistos' = FreshVistos(vistos)
    /\ origem' = <<>>
    /\ log' = Append(log, [ev |-> "buscar_return"])
    /\ pc' = "extrair_for"
    /\ UNCHANGED <<tokenVars, max_pages, exc, driverVars, csv>>

-----------------------------------------------------------------------------
(* main, lines 171-180 *)

NoCsv == [written |-> FALSE, lines |-> <<>>]

Init ==
    /\ tokensFile \in TokenFiles
    /\ max_pages \in -1..MaxPagesArg
    /\ TOKENS = <<>>
    /\ TOKEN_INDEX = 0
    /\ pc = "load_tokens"
    /\ exc = "none"
    /\ page = 1
    /\ itens = <<>>
    /\ total = RetryTotal
    /\ r = NoResponse
    /\ items = <<>>
    /\ idx = 1
    /\ saida = <<>>
    /\ vistos = {}
    /\ origem = <<>>
    /\ csv = NoCsv
    /\ log = <<>>

Next ==
    \/ load_tokens
    \/ buscar_commits_for
    \/ http_get_try
    \/ SESSION_get_forcelist
    \/ http_get_403
    \/ http_get_return
    \/ http_get_ConnectionError
    \/ http_get_Timeout
    \/ buscar_commits_page
    \/ buscar_commits_return
    \/ extrair_for
    \/ extrair_return
    \/ salvar_csv_lote

Spec == Init /\ [][Next]_vars

\* extrair_campos_para_csv and salvar_csv_lote alone, on every raw sequence of up
\* to MaxItems items
InitNorm ==
    /\ tokensFile = [exists |-> TRUE, lines |-> <<LineX>>]
    /\ max_pages = 0
    /\ TOKENS = <<<<"x">>>>
    /\ TOKEN_INDEX = 0
    /\ pc = "extrair_for"
    /\ exc = "none"
    /\ page = 1
    /\ itens = <<>>
    /\ total = RetryTotal
    /\ r = NoResponse
    /\ items \in SeqsUpTo(RawItems, MaxItems)
    /\ idx = 1
    /\ saida = <<>>
    /\ vistos = {}
    /\ origem = <<>>
    /\ csv = NoCsv
    /\ log = <<>>

NextNorm == extrair_for \/ extrair_return \/ salvar_csv_lote

SpecNorm == InitNorm /\ [][NextNorm]_vars

\* One call of http_get alone (page 1), from every position of the rotation
ValidTokenFiles == {f \in TokenFiles : f.exists /\ NonBlankStripped(f.lines) # <<>>}

InitHttp ==
    /\ tokensFile \in ValidTokenFiles
    /\ max_pages = 1
    /\ TOKENS = NonBlankStripped(tokensFile.lines)
    /\ TOKEN_INDEX \in 0..(Len(TOKENS) - 1)
    /\ pc = "http_get"
    /\ exc = "none"
    /\ page = 1
    /\ itens = <<>>
    /\ total = RetryTotal
    /\ r = NoResponse
    /\ items = <<>>
    /\ idx = 1
    /\ saida = <<>>
    /\ vistos = {}
    /\ origem = <<>>
    /\ csv = NoCsv
    /\ log = <<[ev |-> "http_get", page |-> 1]>>

NextHttp ==
    \/ http_get_try
    \/ SESSION_get_forcelist
    \/ http_get_403
    \/ http_get_return
    \/ http_get_ConnectionError
    \/ http_get_Timeout

SpecHttp == InitHttp /\ [][NextHttp]_vars

\* The same call when 403s, connection errors and timeouts happen only finitely
\* often (on none but the first MaxAttempts - 1 attempts), the program taking
\* its next step whenever it has one.
FailuresLeft == Attempts < MaxAttempts

NextHttpFinite ==
    \/ http_get_try
    \/ SESSION_get_forcelist
    \/ (FailuresLeft /\ http_get_403)
    \/ http_get_return
    \/ (FailuresLeft /\ http_get_ConnectionError)
    \/ (FailuresLeft /\ http_get_Timeout)

SpecHttpFair == InitHttp /\ [][NextHttpFinite]_vars /\ WF_vars(NextHttpFinite)

\* extrair_campos_para_csv called twice on the same items, with or without a
\* call of http_get (and the rotation it drives) in between.
TwiceItems == {ItemA, ItemDup, ItemB, ItemNoSha}

Returns == Len(SelectSeq(log, LAMBDA e : e.ev = "extrair_return"))

InitTwice ==
    /\ tokensFile = [exists |-> TRUE, lines |-> <<LineX, LineY>>]
    /\ max_pages = 1
    /\ TOKENS = NonBlankStripped(tokensFile.lines)
    /\ TOKEN_INDEX = 0
    /\ pc = "extrair_for"
    /\ exc = "none"
    /\ page = 1
    /\ itens = <<>>
    /\ total = RetryTotal
    /\ r = NoResponse
    /\ items \in SeqsUpTo(TwiceItems, MaxItems)
    /\ idx = 1
    /\ saida = <<>>
    /\ vistos = FreshVistos({})
    /\ origem = <<>>
    /\ csv = NoCsv
    /\ log = <<>>

\* a call of http_get between the two calls of the normaliser
fetch_between ==
    /\ pc = "salvar_csv_lote"
    /\ Returns = 1
    /\ log' = Append(log, [ev |-> "http_get", page |-> page])
    /\ pc' = "http_get"
    /\ UNCHANGED <<tokenVars, max_pages, exc, driverVars, extrairVars, csv>>

\* lines 136-137 again: the second call, on the same items
extrair_again ==
    /\ pc \in {"salvar_csv_lote", "buscar_page"}
    /\ Returns = 1
    /\ idx' = 1
    /\ saida' = <<>>
    /\ vistos' = FreshVistos(vistos)
    /\ origem' = <<>>
    /\ pc' = "extrair_for"
    /\ UNCHANGED <<tokenVars, max_pages, exc, driverVars, items, csv, log>>

\* The body of the response fetched in between is read by nothing here, so it
\* is left empty.
NextTwice ==
    \/ extrair_for
    \/ extrair_return
    \/ fetch_between
    \/ extrair_again
    \/ http_get_try
    \/ SESSION_get_forcelist
    \/ http_get_403
    \/ (http_get_return /\ r'.data = NoData)
    \/ http_get_ConnectionError
    \/ http_get_Timeout

SpecTwice == InitTwice /\ [][NextTwice]_vars

-----------------------------------------------------------------------------
(* Readings of the history *)

Issued == SelectSeq(log, LAMBDA e : e.ev = "next_headers")
PagesRequested == SelectSeq(log, LAMBDA e : e.ev = "http_get")
Responses == SelectSeq(log, LAMBDA e : e.ev = "return")
DriverReturned == \E i \in 1..Len(log) : log[i].ev = "buscar_return"
NormalizerReturned == pc \in {"salvar_csv_lote", "done"}

\* What a response body holds, read off the JSON itself
RawPageItems(resp) ==
    IF resp.data.d.items.t = "list" THEN resp.data.d.items.l ELSE <<>>

RECURSIVE ConcatPages(_, _)
ConcatPages(R, n) ==
    IF n = 0 THEN <<>> ELSE ConcatPages(R, n - 1) \o RawPageItems(R[n].r)

Continuing(resp) == resp.status = 200 /\ RawPageItems(resp) # <<>> /\ resp.next
Stopper(resp) == resp.status = 200 /\ (RawPageItems(resp) = <<>> \/ ~resp.next)

\* What an item holds, read off the JSON itself
Missing(v) == v.t \in {"absent", "none"} \/ (v.t = "str" /\ v.s = "")
RawRepoName(it) ==
    IF it.d.repository.t = "dict" THEN it.d.repository.d.full_name ELSE Absent
RawSha(it) == it.d.sha
RawLogin(it) == IF it.d.author.t = "dict" THEN it.d.author.d.login ELSE Absent
RawCommitName(it) ==
    IF it.d.commit.t = "dict" /\ it.d.commit.d.author.t = "dict"
    THEN it.d.commit.d.author.d.name
    ELSE Absent
RawKey(it) == <<RawRepoName(it), RawSha(it)>>
HasKey(it) == ~Missing(RawRepoName(it)) /\ ~Missing(RawSha(it))
FirstCarrying(k) ==
    CHOOSE m \in 1..Len(items) :
        /\ RawKey(items[m]) = k
        /\ \A n \in 1..(m - 1) : RawKey(items[n]) # k

-----------------------------------------------------------------------------
(* C1: with a loaded pool of N >= 1 tokens, the k-th call of next_headers      *)
(* returns the token at list position ((k-1) mod N)+1: the first N calls       *)
(* return each token once, in list order, and call N+1 returns the first.      *)
C1_RoundRobin ==
    \A k \in 1..Len(Issued) :
        Issued[k].token = TOKENS[((k - 1) % Len(TOKENS)) + 1]

C1_Witness == Len(TOKENS) >= 2 /\ Len(Issued) = Len(TOKENS) + 1

(* C2: when the retries on a 429/5xx status are used up, http_get returns that  *)
(* last response (it does not raise), and buscar_commits requests no further   *)
(* page.                                                                       *)
C2_ExhaustedRetryReturnsResponse ==
    \A i \in 1..Len(log) :
        log[i].ev = "exhausted" =>
            /\ exc # "RetryError"
            /\ i < Len(log)
            /\ log[i + 1].ev = "return"
            /\ log[i + 1].r.status = log[i].status
            /\ \A j \in (i + 1)..Len(log) : log[j].ev # "http_get"

(* C3: once the tokens are loaded nothing aborts the run; only a missing or     *)
(* empty tokens.txt does, before any request.                                  *)
C3_OnlyConfigurationAborts ==
    pc = "raised" => (exc = "RuntimeError" /\ log = <<>>)

(* C4: the normaliser never raises, whatever the items hold.                    *)
C4_NormalizerNeverRaises == pc # "raised"

(* C5: every emitted record's author is the login when a non-empty login is     *)
(* present, else the commit author name when one is present and non-empty,     *)
(* else "desconhecido".                                                        *)
ClaimedAuthor(it) ==
    IF ~Missing(RawLogin(it)) THEN RawLogin(it)
    ELSE IF ~Missing(RawCommitName(it)) THEN RawCommitName(it)
    ELSE SENTINEL

C5_AuthorResolution ==
    \A i \in 1..Len(saida) : saida[i][4] = ClaimedAuthor(items[origem[i]])

(* C6: the output never holds two records with the same (repository, sha), and  *)
(* when the normaliser returns it holds one record for every key carried by an *)
(* item with non-empty repository and sha, whose parent_sha and author are     *)
(* those of the first item carrying the key.                                   *)
C6_Dedup ==
    /\ \A i, j \in 1..Len(saida) :
          (saida[i][1] = saida[j][1] /\ saida[i][2] = saida[j][2]) => i = j
    /\ NormalizerReturned =>
          \A n \in 1..Len(items) :
              HasKey(items[n]) =>
                  \E i \in 1..Len(saida) :
                      /\ <<saida[i][1], saida[i][2]>> = RawKey(items[n])
                      /\ saida[i][3] = parent_sha_of(items[FirstCarrying(RawKey(items[n]))])
                      /\ saida[i][4] = author_of(items[FirstCarrying(RawKey(items[n]))])

C6_Witness ==
    /\ pc = "done"
    /\ Len(items) = 2
    /\ HasKey(items[1])
    /\ RawKey(items[1]) = RawKey(items[2])
    /\ Record(items[1]) # Record(items[2])
    /\ saida = <<Record(items[1])>>

(* C7: no emitted record has an empty repository or sha, and an item whose      *)
(* repository full name or sha is absent, null or empty contributes no record. *)
C7_NonEmptyKeys ==
    /\ \A i \in 1..Len(saida) :
          /\ saida[i][1].t = "str" /\ saida[i][1].s # ""
          /\ saida[i][2].t = "str" /\ saida[i][2].s # ""
    /\ \A i \in 1..Len(origem) : HasKey(items[origem[i]])

C7_Witness ==
    /\ pc = "done"
    /\ Len(items) = 2
    /\ ~HasKey(items[1])
    /\ HasKey(items[2])
    /\ saida = <<Record(items[2])>>

(* C8: after the first page answered 200 with no items or without a 'next'      *)
(* link no further page is requested, and buscar_commits returns the items of  *)
(* all the pages fetched up to and including that one, in order.               *)
C8_Exhaustion ==
    /\ \A i \in 1..Len(Responses) :
          Stopper(Responses[i].r) =>
              (i = Len(Responses) /\ Len(PagesRequested) = Len(Responses))
    /\ (DriverReturned /\ Len(Responses) > 0 /\ Stopper(Responses[Len(Responses)].r)) =>
          items = ConcatPages(Responses, Len(Responses))

C8_Witness ==
    /\ DriverReturned
    /\ Len(Responses) = 2
    /\ Continuing(Responses[1].r)
    /\ Responses[2].r.status = 200 /\ RawPageItems(Responses[2].r) = <<>>
    /\ items = RawPageItems(Responses[1].r)

(* C9: no page beyond max_pages is ever requested; when every page answers 200  *)
(* with items and a 'next' link, exactly the pages 1..max_pages are requested  *)
(* and the items of all of them are returned, in order.                        *)
C9_PageCap ==
    /\ \A i \in 1..Len(PagesRequested) : PagesRequested[i].page <= max_pages
    /\ (DriverReturned /\ \A i \in 1..Len(Responses) : Continuing(Responses[i].r)) =>
          /\ Len(PagesRequested) = (IF max_pages > 0 THEN max_pages ELSE 0)
          /\ \A i \in 1..Len(PagesRequested) : PagesRequested[i].page = i
          /\ Len(Responses) = Len(PagesRequested)
          /\ items = ConcatPages(Responses, Len(Responses))

C9_Witness ==
    /\ DriverReturned
    /\ max_pages = 2
    /\ Len(Responses) = 2
    /\ Continuing(Responses[1].r) /\ Continuing(Responses[2].r)
    /\ Len(items) = Len(RawPageItems(Responses[1].r)) + Len(RawPageItems(Responses[2].r))

(* C10: when http_get returns a status other than 200 for page p, no page after *)
(* p is requested and what is returned is the items of pages 1..p-1, unchanged.*)
C10_PartialOnError ==
    /\ \A i \in 1..Len(Responses) :
          Responses[i].r.status # 200 =>
              /\ i = Len(Responses)
              /\ Len(PagesRequested) = i
              /\ PagesRequested[i].page = i
              /\ itens = ConcatPages(Responses, i - 1)
              /\ DriverReturned => items = ConcatPages(Responses, i - 1)

C10_Witness ==
    /\ DriverReturned
    /\ Len(Responses) = 2
    /\ Responses[2].r.status = 422
    /\ items = RawPageItems(Responses[1].r)
    /\ items # <<>>

-----------------------------------------------------------------------------
\* The call of http_get that event j of the log belongs to: where it starts
CallStart(j) ==
    CHOOSE c \in 1..j :
        /\ log[c].ev = "http_get"
        /\ \A k \in (c + 1)..j : log[k].ev # "http_get"

CountIn(a, b, P(_)) == Cardinality({i \in a..b : P(log[i])})
Is403(e) == e.ev = "response" /\ e.status = 403
IsCooldown(e) == e.ev = "sleep" /\ e.secs = 600

(* C11: http_get returns the first response that is not a 403, never a 403,     *)
(* and has slept 600 s exactly once for each 403 it received before.           *)
C11_Cooldown ==
    /\ \A i \in 1..Len(log) :
          (log[i].ev = "response" /\ log[i].status # 403) =>
              /\ i < Len(log)
              /\ log[i + 1].ev = "return"
              /\ log[i + 1].r.status = log[i].status
    /\ \A j \in 1..Len(log) :
          log[j].ev = "return" =>
              /\ log[j].r.status # 403
              /\ log[j - 1].ev = "response" /\ log[j - 1].status = log[j].r.status
              /\ \A i \in CallStart(j)..(j - 2) :
                    log[i].ev = "response" => log[i].status = 403
              /\ CountIn(CallStart(j), j, IsCooldown) = CountIn(CallStart(j), j, Is403)
    /\ CountIn(1, Len(log), IsCooldown) = CountIn(1, Len(log), Is403)

C11_Witness ==
    /\ Len(log) >= 7
    /\ log[Len(log)].ev = "return"
    /\ log[Len(log)].r.status = 200
    /\ CountIn(CallStart(Len(log)), Len(log), Is403) = 1
    /\ CountIn(CallStart(Len(log)), Len(log), IsCooldown) = 1
    /\ CountIn(CallStart(Len(log)), Len(log), LAMBDA e : e.ev = "error") = 0

(* C12: a connection error or timeout is followed by one 5 s sleep and by a     *)
(* retry of the same request, is never propagated, and a later response that   *)
(* is not a 403 is what http_get returns.                                      *)
C12_NetworkRetry ==
    /\ exc \notin {"ConnectionError", "Timeout"}
    /\ \A i \in 1..Len(log) :
          log[i].ev = "error" =>
              /\ i < Len(log)
              /\ log[i + 1] = [ev |-> "sleep", secs |-> 5]
              /\ i + 2 <= Len(log) => log[i + 2].ev = "next_headers"
              /\ i + 1 = Len(log) => pc = "http_get"
    /\ (pc = "http_get" /\ Attempts < MaxAttempts) => ENABLED http_get_try
    /\ \A j \in 1..Len(log) :
          log[j].ev = "return" =>
              /\ log[j - 1].ev = "response"
              /\ log[j - 1].status = log[j].r.status
              /\ log[j - 1].status # 403

C12_Witness ==
    /\ Len(log) >= 7
    /\ log[Len(log)].ev = "return"
    /\ CountIn(CallStart(Len(log)), Len(log), LAMBDA e : e.ev = "error") = 2
    /\ CountIn(CallStart(Len(log)), Len(log), Is403) = 0

-----------------------------------------------------------------------------
\* What tokens.txt holds, read off the lines themselves
IsBlankLine(ln) == \A i \in 1..Len(ln) : ln[i] \in Whitespace
TrimOf(ln) ==
    LET ink == {i \in 1..Len(ln) : ln[i] \notin Whitespace}
        lo == CHOOSE i \in ink : \A k \in ink : i <= k
        hi == CHOOSE i \in ink : \A k \in ink : k <= i
    IN SubSeq(ln, lo, hi)
ExpectedPool(lines) ==
    LET nb == SelectSeq(lines, LAMBDA ln : ~IsBlankLine(ln))
    IN [i \in 1..Len(nb) |-> TrimOf(nb[i])]
NoUsableLine ==
    ~tokensFile.exists \/ \A i \in 1..Len(tokensFile.lines) : IsBlankLine(tokensFile.lines[i])

(* C13: with tokens.txt missing or without a non-blank line, load_tokens raises *)
(* before any request is issued and before the output file is written; with at *)
(* least one non-blank line the pool is the non-blank lines, stripped, in file *)
(* order.                                                                      *)
C13_Configuration ==
    /\ NoUsableLine =>
          /\ pc \in {"load_tokens", "raised"}
          /\ pc = "raised" => exc = "RuntimeError"
          /\ log = <<>>
          /\ ~csv.written
    /\ (~NoUsableLine /\ pc # "load_tokens") =>
          /\ TOKENS = ExpectedPool(tokensFile.lines)
          /\ exc # "RuntimeError"

C13_Witness ==
    /\ pc = "raised"
    /\ exc = "RuntimeError"
    /\ tokensFile.exists
    /\ Len(tokensFile.lines) = 2
    /\ log = <<>>

-----------------------------------------------------------------------------
SaidaKey(i) == <<saida[i][1], saida[i][2]>>

(* C14: the pages are requested as 1, 2, 3, ... with none skipped or repeated,  *)
(* the raw sequence is the pages' items in page order, and the records stand   *)
(* in the order in which their keys first appear in the raw sequence.          *)
C14_Ordering ==
    /\ \A i \in 1..Len(PagesRequested) : PagesRequested[i].page = i
    /\ DriverReturned => items = ConcatPages(Responses, Len(Responses))
    /\ \A i, j \in 1..Len(saida) :
          i < j => FirstCarrying(SaidaKey(i)) < FirstCarrying(SaidaKey(j))

C14_Witness ==
    /\ pc = "done"
    /\ Len(Responses) = 2
    /\ Len(items) = 3
    /\ Len(saida) = 2
    /\ SaidaKey(1) = RawKey(items[1])
    /\ SaidaKey(2) = RawKey(items[2])

(* C15: the file written for k records is the header repo,sha,parent_sha,author *)
(* followed by k rows, row i holding the fields of record i.                   *)
C15_CsvEmission ==
    /\ ~csv.written => csv.lines = <<>>
    /\ csv.written =>
          /\ Len(csv.lines) = Len(saida) + 1
          /\ csv.lines[1] = <<"repo", "sha", "parent_sha", "author">>
          /\ \A i \in 1..Len(saida) :
                /\ Len(csv.lines[i + 1]) = 4
                /\ \A f \in 1..4 :
                      /\ saida[i][f].t = "str" => csv.lines[i + 1][f] = saida[i][f].s
                      /\ saida[i][f].t = "none" => csv.lines[i + 1][f] = ""

C15_Witness ==
    /\ csv.written
    /\ Len(items) = 3
    /\ Len(saida) = 2
    /\ Len(csv.lines) = 3

Outputs == SelectSeq(log, LAMBDA e : e.ev = "extrair_return")

(* C16: two calls of the normaliser on the same raw sequence return the same   *)
(* records, whatever happened in between: nothing the first call saw, and no   *)
(* fetch or rotation, carries over into the second.                            *)
C16_Idempotent ==
    \A i, j \in 1..Len(Outputs) : Outputs[i].saida = Outputs[j].saida

C16_Witness ==
    /\ Len(Outputs) = 2
    /\ Len(Issued) >= 2
    /\ Len(items) = 2
    /\ Len(Outputs[2].saida) = 1

(* C17: when 403 responses and network failures happen only finitely often,    *)
(* every call of http_get eventually returns a response to the driver.         *)
C17_EventuallyReturns == <>(pc = "buscar_page")

Cap == IF max_pages > 0 THEN max_pages ELSE 0

(* C18: the driver fetches at most max(0, max_pages) pages and stops at the     *)
(* first response that is not 200, has no items or no 'next' link, or is that  *)
(* of page max_pages; until then it goes on, and once a response is returned   *)
(* it always has its next step to take.                                        *)
C18_DriverTermination ==
    /\ Len(PagesRequested) <= Cap
    /\ \A i \in 1..Len(Responses) :
          (~Continuing(Responses[i].r) \/ i >= max_pages) =>
              (i = Len(Responses) /\ Len(PagesRequested) = i)
    /\ \A i \in 1..Len(Responses) :
          (Continuing(Responses[i].r) /\ i < max_pages /\ Len(PagesRequested) = i) =>
              (~DriverReturned /\ pc \in {"buscar_page", "buscar_for"})
    /\ pc \in {"buscar_for", "buscar_page", "buscar_return"} =>
          ENABLED (buscar_commits_for \/ buscar_commits_page \/ buscar_commits_return)

C18_Witness ==
    /\ DriverReturned
    /\ max_pages = 2
    /\ Len(PagesRequested) = 1
    /\ Responses[1].r.status = 200
    /\ RawPageItems(Responses[1].r) # <<>>
    /\ ~Responses[1].r.next

Uses(p) == Cardinality({i \in 1..Len(Issued) : Issued[i].token = TOKENS[p]})
Outcomes == SelectSeq(log, LAMBDA e : e.ev \in {"response", "error", "exhausted"})

(* C19: every attempt of http_get, first try or retry, takes one credential and *)
(* moves the cursor by one: after k attempts on a pool of N each credential    *)
(* was used floor(k/N) or ceil(k/N) times and the cursor is k mod N, within    *)
(* 0..N-1.                                                                     *)
C19_EvenRotation ==
    TOKENS # <<>> =>
        LET N == Len(TOKENS)
            k == Len(Issued)
        IN /\ TOKEN_INDEX \in 0..(N - 1)
           /\ TOKEN_INDEX = k % N
           /\ k = Len(Outcomes) + (IF pc = "SESSION_get" THEN 1 ELSE 0)
           /\ \A p \in 1..N : Uses(p) \in {k \div N, (k + N - 1) \div N}

C19_Witness ==
    /\ Len(TOKENS) = 2
    /\ Len(Issued) = 3
    /\ \E i \in 1..Len(log) : log[i].ev = "error"
    /\ \E i \in 1..Len(log) : Is403(log[i])
    /\ Uses(1) = 2 /\ Uses(2) = 1

IsThrottle(e) == e.ev = "sleep" /\ e.secs = 1
ThrottlesBefore(i) == Cardinality({j \in 1..(i - 1) : IsThrottle(log[j])})

(* C20: the 1-second sleep happens exactly once between two consecutive page   *)
(* fetches and never after the last page fetched.                              *)
C20_ThrottleOnlyBetweenFetches ==
    /\ \A i \in 1..Len(log) :
          log[i].ev = "http_get" => ThrottlesBefore(i) = log[i].page - 1
    /\ DriverReturned =>
          ThrottlesBefore(Len(log) + 1) =
              (IF PagesRequested = <<>> THEN 0 ELSE Len(PagesRequested) - 1)

\* The parent list of an item and the sha of its first entry, read off the JSON
RawParents(it) == IF it.d.parents.t = "list" THEN it.d.parents.l ELSE <<>>
RawFirstParentSha(it) ==
    IF RawParents(it)[1].t = "dict" THEN RawParents(it)[1].d.sha ELSE Absent

ClaimedParentSha(it) ==
    IF RawParents(it) # <<>> THEN RawFirstParentSha(it) ELSE Str("")

(* C21: every emitted record's parent_sha is the sha of the first entry of its  *)
(* item's parent list when that list is present and non-empty, and the empty   *)
(* string when the list is absent, null or empty; entries after the first play *)
(* no part.                                                                    *)
C21_ParentSha ==
    \A i \in 1..Len(saida) : saida[i][3] = ClaimedParentSha(items[origem[i]])

C21_Witness ==
    /\ pc = "done"
    /\ Len(saida) = 2
    /\ Len(RawParents(items[origem[1]])) = 2
    /\ saida[1][3] = Str("p1")
    /\ RawParents(items[origem[2]]) = <<>>
    /\ saida[2][3] = Str("")

====
